---- MODULE Spec2Model ----
(***************************************************************************)
(* Unit converter (src/app.py): the conversion table CONVERSIONS, the pure *)
(* function convert, and the Gradio callback do_convert with the shared    *)
(* history list.                                                           *)
(*                                                                         *)
(* Representation.                                                         *)
(*  - Strings are TLA+ strings.  The module language has ASCII strings     *)
(*    only, so the source's non-ASCII characters are transliterated:       *)
(*    the cross mark is "[X]", the degree sign is "deg" ("degC", "degF"),  *)
(*    superscript two and three are "2" and "3" ("m2", "cm3").             *)
(*  - A number is exact: a rational <<n, d>> with d > 0 in lowest terms.   *)
(*    Python computes in binary floating point; the places where the       *)
(*    floating-point error can change the printed result (a value exactly  *)
(*    half way between two 6-decimal numbers) are a nondeterministic       *)
(*    choice (the parameter tie).                                          *)
(*  - An input value is None, a decimal number                             *)
(*    [kind, neg, m, e] = (-1)^neg * m * 10^-e of kind "int" or "float",   *)
(*    an infinity (kind "inf") or a NaN (kind "nan").                      *)
(*  - Scale factors that do not fit TLC's 32-bit integers are left out of  *)
(*    the table: Data's "TB" (1024^4) and the category Angle, whose        *)
(*    factors are multiples of pi.                                         *)
(***************************************************************************)
EXTENDS Integers, Sequences, FiniteSets, TLC

VARIABLES
  args,      \* SpecConvert: the arguments of the convert call
  outcome,   \* SpecConvert: what the call did (returned string / raised)
  back,      \* SpecConvert: the outcome of the call in the other direction
  cpc,       \* SpecConvert: "input", "done", "back"
  history,   \* the module-level list history
  log,       \* ghost: every string convert returned to do_convert, in order
  ret,       \* what the last do_convert returned: <<res, hist_txt>>
  tpc,       \* SpecThreads: each worker's position inside do_convert
  tres,      \* SpecThreads: each worker's local res
  done       \* SpecThreads: the number of do_convert calls that returned

vars == <<args, outcome, back, cpc, history, log, ret, tpc, tres, done>>

(***************************************************************************)
(* Exact arithmetic                                                        *)
(***************************************************************************)
Abs(x) == IF x < 0 THEN -x ELSE x

Min(a, b) == IF a < b THEN a ELSE b

RECURSIVE GCD(_, _)
GCD(a, b) == IF b = 0 THEN a ELSE GCD(b, a % b)

RECURSIVE Pow10(_)
Pow10(k) == IF k = 0 THEN 1 ELSE 10 * Pow10(k - 1)

\* n/d in lowest terms with a positive denominator
Rat(n, d) ==
  LET s == IF d < 0 THEN -1 ELSE 1
      g == GCD(Abs(n), Abs(d))
  IN  <<s * (n \div g), s * (d \div g)>>

\* a * b and a / b, cancelling before multiplying
RatMul(a, b) ==
  LET x == Rat(a[1], b[2])
      y == Rat(b[1], a[2])
  IN  Rat(x[1] * y[1], x[2] * y[2])

RatDiv(a, b) == RatMul(a, <<b[2], b[1]>>)

\* a + b over the least common denominator
RatAdd(a, b) ==
  LET g == GCD(a[2], b[2])
  IN  Rat(a[1] * (b[2] \div g) + b[1] * (a[2] \div g), a[2] * (b[2] \div g))

RatSub(a, b) == RatAdd(a, <<-b[1], b[2]>>)

(***************************************************************************)
(* Conversion data                                                         *)
(***************************************************************************)
CONVERSIONS ==
  [ Length |->
      [ base |-> "m",
        units |-> ("m" :> <<1, 1>>) @@ ("km" :> <<1000, 1>>) @@ ("cm" :> <<1, 100>>)
               @@ ("mm" :> <<1, 1000>>) @@ ("mi" :> <<201168, 125>>)
               @@ ("yd" :> <<1143, 1250>>) @@ ("ft" :> <<381, 1250>>)
               @@ ("in" :> <<127, 5000>>) ],
    Mass |->
      [ base |-> "kg",
        units |-> ("kg" :> <<1, 1>>) @@ ("g" :> <<1, 1000>>) @@ ("mg" :> <<1, 1000000>>)
               @@ ("lb" :> <<45359237, 100000000>>) @@ ("oz" :> <<56699, 2000000>>) ],
    Temperature |-> [ units |-> <<"degC", "degF", "K">> ],
    Time |->
      [ base |-> "s",
        units |-> ("s" :> <<1, 1>>) @@ ("min" :> <<60, 1>>) @@ ("h" :> <<3600, 1>>)
               @@ ("day" :> <<86400, 1>>) ],
    Speed |->
      [ base |-> "m/s",
        units |-> ("m/s" :> <<1, 1>>) @@ ("km/h" :> <<5, 18>>) @@ ("mph" :> <<1397, 3125>>)
               @@ ("knot" :> <<463, 900>>) ],
    Area |->
      [ base |-> "m2",
        units |-> ("m2" :> <<1, 1>>) @@ ("cm2" :> <<1, 10000>>) @@ ("mm2" :> <<1, 1000000>>)
               @@ ("km2" :> <<1000000, 1>>) @@ ("ft2" :> <<92903, 1000000>>)
               @@ ("in2" :> <<16129, 25000000>>) @@ ("acre" :> <<505857, 125>>)
               @@ ("hectare" :> <<10000, 1>>) ],
    Volume |->
      [ base |-> "L",
        units |-> ("L" :> <<1, 1>>) @@ ("mL" :> <<1, 1000>>) @@ ("m3" :> <<1000, 1>>)
               @@ ("cm3" :> <<1, 1000>>) @@ ("ft3" :> <<17698, 625>>)
               @@ ("in3" :> <<163871, 10000000>>) @@ ("gal(US)" :> <<378541, 100000>>)
               @@ ("qt(US)" :> <<946353, 1000000>>) ],
    Energy |->
      [ base |-> "J",
        units |-> ("J" :> <<1, 1>>) @@ ("kJ" :> <<1000, 1>>) @@ ("Wh" :> <<3600, 1>>)
               @@ ("kWh" :> <<3600000, 1>>) @@ ("cal" :> <<523, 125>>)
               @@ ("kcal" :> <<4184, 1>>) ],
    Pressure |->
      [ base |-> "Pa",
        units |-> ("Pa" :> <<1, 1>>) @@ ("kPa" :> <<1000, 1>>) @@ ("bar" :> <<100000, 1>>)
               @@ ("atm" :> <<101325, 1>>) @@ ("psi" :> <<172369, 25>>)
               @@ ("mmHg" :> <<66661, 500>>) ],
    Data |->
      [ base |-> "byte",
        units |-> ("bit" :> <<1, 8>>) @@ ("byte" :> <<1, 1>>) @@ ("KB" :> <<1024, 1>>)
               @@ ("MB" :> <<1048576, 1>>) @@ ("GB" :> <<1073741824, 1>>) ] ]

(***************************************************************************)
(* Strings of numbers                                                      *)
(***************************************************************************)
Digit == <<"0", "1", "2", "3", "4", "5", "6", "7", "8", "9">>

\* "".join(cs)
RECURSIVE Join(_)
Join(cs) == IF cs = <<>> THEN "" ELSE Head(cs) \o Join(Tail(cs))

\* the decimal digits of n >= 0, one character each
RECURSIVE NatChars(_)
NatChars(n) ==
  IF n < 10 THEN <<Digit[n + 1]>>
  ELSE Append(NatChars(n \div 10), Digit[(n % 10) + 1])

IntChars(n) == IF n < 0 THEN <<"-">> \o NatChars(-n) ELSE NatChars(n)

\* n >= 0 in w digits, zero-padded on the left
PadChars(n, w) ==
  LET ds == NatChars(n)
  IN  [i \in 1..(w - Len(ds)) |-> "0"] \o ds

\* str.rstrip(c)
RECURSIVE rstrip(_, _)
rstrip(cs, c) ==
  IF cs # <<>> /\ cs[Len(cs)] = c THEN rstrip(SubSeq(cs, 1, Len(cs) - 1), c) ELSE cs

(***************************************************************************)
(* Input values                                                            *)
(***************************************************************************)
None == [kind |-> "None", neg |-> FALSE, m |-> 0, e |-> 0]

IntValue(n) == [kind |-> "int", neg |-> n < 0, m |-> Abs(n), e |-> 0]

FloatValue(neg, m, e) == [kind |-> "float", neg |-> neg, m |-> m, e |-> e]

\* float("inf"), float("-inf"), float("nan")
Infinity(neg) == [kind |-> "inf", neg |-> neg, m |-> 0, e |-> 0]

NaN == [kind |-> "nan", neg |-> FALSE, m |-> 0, e |-> 0]

Finite(value) == value.kind \in {"int", "float"}

\* float(value), for a finite value
float(value) == Rat(IF value.neg THEN -value.m ELSE value.m, Pow10(value.e))

\* repr of a float m * 10^-e (m has no trailing zero unless e = 0): fixed
\* notation from 1e-4 on, scientific notation below
FloatRepr(m, e) ==
  IF e = 0 THEN NatChars(m) \o <<".", "0">>
  ELSE IF e <= 4 \/ m >= Pow10(e - 4)
  THEN NatChars(m \div Pow10(e)) \o <<".">> \o PadChars(m % Pow10(e), e)
  ELSE LET ds == NatChars(m)
           x  == e - Len(ds) + 1
       IN  <<ds[1]>> \o (IF Len(ds) > 1 THEN <<".">> \o Tail(ds) ELSE <<>>)
           \o <<"e", "-">> \o PadChars(x, 2)

\* f"{value}"
Str(value) ==
  IF value.kind = "None" THEN "None"
  ELSE IF value.kind = "nan" THEN "nan"
  ELSE IF value.kind = "inf" THEN (IF value.neg THEN "-inf" ELSE "inf")
  ELSE (IF value.neg THEN "-" ELSE "")
       \o Join(IF value.kind = "int" THEN NatChars(value.m)
               ELSE FloatRepr(value.m, value.e))

(***************************************************************************)
(* convert: the result formatting (app.py 88-92)                           *)
(***************************************************************************)
\* 1e-9, as its reciprocal
NearIntegerInv == 1000000000

\* the digits kept after the decimal point
Decimals == 6

\* round(x) of Python 3 for x = r[1]/r[2]: to the nearest integer, a half to
\* the even one
round(r) ==
  LET fl == r[1] \div r[2]
      tw == 2 * (r[1] - fl * r[2])
  IN  IF tw < r[2] THEN fl
      ELSE IF tw > r[2] THEN fl + 1
      ELSE IF fl % 2 = 0 THEN fl ELSE fl + 1

\* abs(result - round(result)) < 1e-9
NearInteger(r) ==
  Abs(r[1] - round(r) * r[2]) <= (r[2] - 1) \div NearIntegerInv

\* the first k digits of rem/q after the decimal point (0 <= rem < q), and the
\* remainder they leave
RECURSIVE LongDiv(_, _, _)
LongDiv(rem, q, k) ==
  IF k = 0 THEN [digits |-> <<>>, rem |-> rem]
  ELSE LET rest == LongDiv((rem * 10) % q, q, k - 1)
       IN  [digits |-> <<(rem * 10) \div q>> \o rest.digits, rem |-> rest.rem]

RECURSIVE DigitsValue(_)
DigitsValue(ds) ==
  IF ds = <<>> THEN 0 ELSE 10 * DigitsValue(SubSeq(ds, 1, Len(ds) - 1)) + ds[Len(ds)]

\* f"{round(x, k):.{k}f}" for x = r[1]/r[2]: |x| rounded to k decimals, in
\* units of 10^-k, printed with exactly k decimals.  tie: whether a value that
\* is exactly half way is rounded away from zero (the binary value that Python
\* rounds lies on either side of it).
Fixed(r, k, tie) ==
  LET a     == Abs(r[1])
      ld    == LongDiv(a % r[2], r[2], k)
      up    == 2 * ld.rem > r[2] \/ (2 * ld.rem = r[2] /\ tie)
      fr    == DigitsValue(ld.digits) + (IF up THEN 1 ELSE 0)
      carry == fr = Pow10(k)
  IN  (IF r[1] < 0 THEN <<"-">> ELSE <<>>)
      \o NatChars((a \div r[2]) + (IF carry THEN 1 ELSE 0))
      \o <<".">> \o PadChars(IF carry THEN 0 ELSE fr, k)

\* lines 89-92: out
format_keep_zeros(result, tie) ==
  IF NearInteger(result) THEN IntChars(round(result))
  ELSE Fixed(result, Decimals, tie)

format_coarse(result, tie) ==
  IF NearInteger(result) THEN IntChars(round(result))
  ELSE rstrip(rstrip(Fixed(result, Decimals - 2, tie), "0"), ".")

format(result, tie) ==
  IF NearInteger(result) THEN IntChars(round(result))
  ELSE rstrip(rstrip(Fixed(result, Decimals, tie), "0"), ".")

(***************************************************************************)
(* convert (app.py 60-95)                                                  *)
(***************************************************************************)
\* What a call did: returned the string ret, or raised an exception whose
\* str() is exc.  out is the formatted number inside ret on the success path
\* (its characters) and result the number it was formatted from; out is empty
\* on every other path.
Returned(s, o) ==
  [raised |-> FALSE, ret |-> s, exc |-> "", out |-> o, result |-> <<0, 1>>]

Raised(e) ==
  [raised |-> TRUE, ret |-> "", exc |-> e, out |-> <<>>, result |-> <<0, 1>>]

\* str(KeyError(k)) is the repr of the key
KeyError(k) == "'" \o k \o "'"

MissingValue == "[X] Enter a number."

InvalidTemperatureUnit == "[X] Invalid temperature unit."

TemperatureUnits == {"degC", "degF", "K"}

\* line 89: every formula of lines 69-87 leaves an infinite value infinite and
\* a NaN a NaN, and round(result) raises on both; this is str(e)
RoundError(value) ==
  IF value.kind = "nan" THEN "cannot convert float NaN to integer"
  ELSE "cannot convert float infinity to integer"

\* line 93
success(value, from_unit, result, to_unit, tie) ==
  LET out == format(result, tie)
  IN  [Returned(Str(value) \o " " \o from_unit \o " = " \o Join(out) \o " " \o to_unit,
                out) EXCEPT !.result = result]

\* lines 68-73: base, for a from_unit of TemperatureUnits
ToCelsius(x, from_unit) ==
  IF from_unit = "degC" THEN x
  ELSE IF from_unit = "degF" THEN RatDiv(RatMul(RatSub(x, <<32, 1>>), <<5, 1>>), <<9, 1>>)
  ELSE RatSub(x, <<5463, 20>>)

\* lines 76-81: result, for a to_unit of TemperatureUnits
FromCelsius(base, to_unit) ==
  IF to_unit = "degC" THEN base
  ELSE IF to_unit = "degF" THEN RatAdd(RatDiv(RatMul(base, <<9, 1>>), <<5, 1>>), <<32, 1>>)
  ELSE RatAdd(base, <<5463, 20>>)

\* lines 66-83 and 88-93
temperature_unchecked_target(value, from_unit, to_unit, tie) ==
  IF from_unit \notin TemperatureUnits THEN Returned(InvalidTemperatureUnit, <<>>)
  ELSE IF ~Finite(value) THEN Raised(RoundError(value))
  ELSE success(value, from_unit,
               FromCelsius(ToCelsius(float(value), from_unit),
                           IF to_unit \in TemperatureUnits THEN to_unit ELSE "degC"),
               to_unit, tie)

temperature(value, from_unit, to_unit, tie) ==
  IF from_unit \notin TemperatureUnits THEN Returned(InvalidTemperatureUnit, <<>>)
  ELSE IF to_unit \notin TemperatureUnits THEN Returned(InvalidTemperatureUnit, <<>>)
  ELSE IF ~Finite(value) THEN Raised(RoundError(value))
  ELSE success(value, from_unit,
               FromCelsius(ToCelsius(float(value), from_unit), to_unit), to_unit, tie)

\* lines 85-87 and 88-93
linear(category, value, from_unit, to_unit, tie) ==
  IF category \notin DOMAIN CONVERSIONS THEN Raised(KeyError(category))
  ELSE LET units == CONVERSIONS[category].units
       IN  IF from_unit \notin DOMAIN units THEN Raised(KeyError(from_unit))
           ELSE IF to_unit \notin DOMAIN units THEN Raised(KeyError(to_unit))
           ELSE IF ~Finite(value) THEN Raised(RoundError(value))
           ELSE LET base_val == RatMul(float(value), units[from_unit])
                IN  success(value, from_unit, RatDiv(base_val, units[to_unit]), to_unit, tie)

\* lines 66-93
compute(category, value, from_unit, to_unit, tie) ==
  IF category = "Temperature" THEN temperature(value, from_unit, to_unit, tie)
  ELSE linear(category, value, from_unit, to_unit, tie)

identity(value, from_unit, to_unit) ==
  Returned(Str(value) \o " " \o from_unit \o " = " \o Str(value) \o " " \o to_unit, <<>>)

\* lines 62-93: the body of the try statement
try_body_no_shortcut(category, value, from_unit, to_unit, tie) ==
  IF value = None THEN Returned(MissingValue, <<>>)
  ELSE compute(category, value, from_unit, to_unit, tie)

try_body_identity_first(category, value, from_unit, to_unit, tie) ==
  IF from_unit = to_unit THEN identity(value, from_unit, to_unit)
  ELSE IF value = None THEN Returned(MissingValue, <<>>)
  ELSE compute(category, value, from_unit, to_unit, tie)

try_body(category, value, from_unit, to_unit, tie) ==
  IF value = None THEN Returned(MissingValue, <<>>)
  ELSE IF from_unit = to_unit THEN identity(value, from_unit, to_unit)
  ELSE compute(category, value, from_unit, to_unit, tie)

\* lines 61-95: the try statement with its except clause
convert_no_except(category, value, from_unit, to_unit, tie) ==
  try_body(category, value, from_unit, to_unit, tie)

convert_outcome(category, value, from_unit, to_unit, tie) ==
  LET b == try_body(category, value, from_unit, to_unit, tie)
  IN  IF b.raised THEN Returned("[X] Error: " \o b.exc, <<>>) ELSE b

\* the string convert returns
convert(category, value, from_unit, to_unit, tie) ==
  convert_outcome(category, value, from_unit, to_unit, tie).ret

(***************************************************************************)
(* SpecConvert: one call of convert on arguments drawn from the sets       *)
(* below, then the call in the other direction on the printed result.      *)
(***************************************************************************)
\* "Weight" is not a key of CONVERSIONS
ConvCategories == {"Length", "Time", "Temperature", "Data", "Weight"}

\* "furlong" is a unit of no category
ConvUnits ==
  {"m", "km", "mm", "in", "mi", "ft", "yd", "s", "h", "degC", "degF", "K",
   "bit", "byte", "furlong"}

\* None, inf, -inf, nan, 0, 1, 3, -40, 100, 2.0, 2.5, -0.0, 0.0078125
ConvValues ==
  {None, Infinity(FALSE), Infinity(TRUE), NaN, IntValue(0), IntValue(1), IntValue(3), IntValue(-40), IntValue(100),
   FloatValue(FALSE, 2, 0), FloatValue(FALSE, 25, 1), FloatValue(TRUE, 0, 0),
   FloatValue(FALSE, 78125, 7)}

\* 5e-07 and -2.5e-05 (printed in scientific notation) and 273.15, on the units whose
\* ratios keep the exact result within TLC's 32-bit integers
TinyValues == {FloatValue(FALSE, 5, 7), FloatValue(TRUE, 25, 6), FloatValue(FALSE, 27315, 2)}

TinyUnits == {"s", "min", "degC", "K", "furlong"}

ConvArgs ==
  [category : ConvCategories, value : ConvValues,
   from_unit : ConvUnits, to_unit : ConvUnits]
  \cup [category : {"Time", "Temperature", "Weight"}, value : TinyValues,
        from_unit : TinyUnits, to_unit : TinyUnits]

NoOutcome == Returned("", <<>>)

NoArgs == [category |-> "", value |-> None, from_unit |-> "", to_unit |-> ""]

\* the variables of the shell, untouched by SpecConvert
IdleShell ==
  /\ history = <<>>
  /\ log = <<>>
  /\ ret = <<"", "">>
  /\ tpc = <<>>
  /\ tres = <<>>
  /\ done = 0

InitConvert ==
  /\ args \in ConvArgs
  /\ outcome = NoOutcome
  /\ back = NoOutcome
  /\ cpc = "input"
  /\ IdleShell

\* convert(category, value, from_unit, to_unit)
Call ==
  /\ cpc = "input"
  /\ \E tie \in BOOLEAN :
       outcome' = convert_outcome(args.category, args.value, args.from_unit,
                                  args.to_unit, tie)
  /\ cpc' = "done"
  /\ UNCHANGED <<args, back, history, log, ret, tpc, tres, done>>

DigitOf(c) == CHOOSE d \in 0..9 : Digit[d + 1] = c

\* the sign, the integer part, the digits after the point and their number,
\* of the characters cs of a number printed by format
ParseParts(cs) ==
  LET neg  == cs[1] = "-"
      body == IF neg THEN Tail(cs) ELSE cs
      dot  == IF \E i \in 1..Len(body) : body[i] = "."
              THEN CHOOSE i \in 1..Len(body) : body[i] = "."
              ELSE Len(body) + 1
  IN  [neg  |-> neg,
       int  |-> DigitsValue([i \in 1..(dot - 1) |-> DigitOf(body[i])]),
       frac |-> DigitsValue([i \in 1..(Len(body) - dot) |-> DigitOf(body[dot + i])]),
       e    |-> IF dot <= Len(body) THEN Len(body) - dot ELSE 0]

\* float(s) for the characters s of a number printed by format
ParseNumber(cs) ==
  LET v == ParseParts(cs)
  IN  FloatValue(v.neg, v.int * Pow10(v.e) + v.frac, v.e)

\* the units on which the call in the other direction is made: those whose
\* factors are powers of ten or small integers, so that the exact result of a
\* 6-decimal number stays within TLC's 32-bit integers
RoundTripUnits == {"m", "km", "mm", "s", "h", "bit", "byte", "degC", "degF", "K"}

\* convert(category, result, to_unit, from_unit) on the number the first call
\* printed
CallBack ==
  /\ cpc = "done"
  /\ outcome.out # <<>>
  /\ {args.from_unit, args.to_unit} \subseteq RoundTripUnits
  /\ \E tie \in BOOLEAN :
       back' = convert_outcome(args.category, ParseNumber(outcome.out),
                               args.to_unit, args.from_unit, tie)
  /\ cpc' = "back"
  /\ UNCHANGED <<args, outcome, history, log, ret, tpc, tres, done>>

NextConvert == Call \/ CallBack

SpecConvert == InitConvert /\ [][NextConvert]_vars

(***************************************************************************)
(* Properties of convert, checked under SpecConvert                        *)
(***************************************************************************)
Called == cpc # "input"

Echo(value, unit) ==
  Str(value) \o " " \o unit \o " = " \o Str(value) \o " " \o unit

\* C3: for every category, every unit label U and every value that is not
\* None, convert(category, v, U, U) returns "v U = v U" with v printed as it
\* was given: nothing is looked up and no result is formatted.
C3_IdentityEcho ==
  (Called /\ args.value # None /\ args.from_unit = args.to_unit)
    => /\ ~outcome.raised
       /\ outcome.ret = Echo(args.value, args.from_unit)
       /\ outcome.out = <<>>

\* the float 2.0 on a unit that is no temperature unit: echoed as "2.0"
C3_Witness ==
  /\ Called
  /\ args.category = "Temperature"
  /\ args.value = FloatValue(FALSE, 2, 0)
  /\ args.from_unit = "m"
  /\ args.to_unit = "m"
  /\ outcome.ret = "2.0 m = 2.0 m"

\* C4: convert(category, None, A, B) returns the missing-input message for
\* every category and every A and B, equal or not, of the category or not.
C4_MissingValue ==
  (Called /\ args.value = None)
    => /\ ~outcome.raised
       /\ outcome.ret = "[X] Enter a number."

C4_Witness ==
  /\ Called
  /\ args.value = None
  /\ args.category = "Weight"
  /\ args.from_unit = "furlong"
  /\ args.to_unit = "furlong"
  /\ outcome.ret = "[X] Enter a number."

\* a/b <= c/d for a, c >= 0 and b, d > 0, by continued fractions: nothing is
\* multiplied
RECURSIVE FracLe(_, _, _, _)
FracLe(a, b, c, d) ==
  IF a \div b # c \div d THEN a \div b < c \div d
  ELSE IF a % b = 0 THEN TRUE
  ELSE IF c % d = 0 THEN FALSE
  ELSE FracLe(d, c % d, b, a % b)

RoundTripCase ==
  /\ cpc = "back"
  /\ args.category \notin {"Temperature", "Data"}

\* |v2 - v| * 10^6 for the value v of the first call and the number v2 the
\* second call printed
RoundTripError ==
  LET d == RatSub(float(ParseNumber(back.out)), float(args.value))
  IN  RatMul(<<Abs(d[1]), d[2]>>, <<1000000, 1>>)

TemperatureCase ==
  /\ Called
  /\ args.category = "Temperature"
  /\ args.value # None
  /\ \/ args.from_unit \notin {"degC", "degF", "K"}
     \/ args.to_unit \notin {"degC", "degF", "K"}

\* C6 as claimed: with a value present, Temperature returns the invalid-unit
\* message whenever fromUnit or toUnit is not one of the three units.
C6_InvalidUnitAlways ==
  TemperatureCase => outcome.ret = "[X] Invalid temperature unit."

\* C6 as amended: ... whenever fromUnit or toUnit is not one of the three
\* units and fromUnit differs from toUnit.
C6_InvalidUnit ==
  (TemperatureCase /\ args.from_unit # args.to_unit)
    => /\ outcome.ret = "[X] Invalid temperature unit."
       /\ outcome.out = <<>>

C6_Witness ==
  /\ TemperatureCase
  /\ args.from_unit = "degC"
  /\ args.to_unit = "m"
  /\ args.value = IntValue(3)
  /\ outcome.ret = "[X] Invalid temperature unit."

\* the call reaches the table: lines 85-87
ReachesLookup ==
  /\ args.value # None
  /\ args.from_unit # args.to_unit
  /\ args.category # "Temperature"

\* the first key that is missing, "" when none is
MissingKey ==
  IF args.category \notin DOMAIN CONVERSIONS THEN args.category
  ELSE IF args.from_unit \notin DOMAIN CONVERSIONS[args.category].units
  THEN args.from_unit
  ELSE IF args.to_unit \notin DOMAIN CONVERSIONS[args.category].units
  THEN args.to_unit
  ELSE ""

\* C7: convert never raises, and when the category lookup or a unit's lookup
\* fails it returns "Error: " followed by the description of the failure (the
\* quoted key), no conversion result.  An infinite value or a NaN that reaches
\* the formatting is answered the same way.
C7_NeverRaises ==
  Called =>
    /\ ~outcome.raised
    /\ ~back.raised
    /\ (ReachesLookup /\ MissingKey # "")
         => /\ outcome.ret = "[X] Error: '" \o MissingKey \o "'"
            /\ outcome.out = <<>>
    /\ (ReachesLookup /\ MissingKey = "" /\ args.value.kind = "inf")
         => outcome.ret = "[X] Error: cannot convert float infinity to integer"

C7_Witness ==
  /\ Called
  /\ args.category = "Length"
  /\ args.from_unit = "km"
  /\ args.to_unit = "h"
  /\ args.value = IntValue(1)
  /\ outcome.ret = "[X] Error: 'h'"

\* cs is the rendering the claim describes of r = p/q
Rendered(r, cs) ==
  LET v    == ParseParts(cs)
      fl   == r[1] \div r[2]
      near == {n \in {fl, fl + 1} : Abs(r[1] - n * r[2]) <= (r[2] - 1) \div NearIntegerInv}
      hasDot == \E i \in 1..Len(cs) : cs[i] = "."
      ip   == Abs(r[1]) \div r[2]
      r0   == Abs(r[1]) % r[2]
      x    == (v.int - ip) * 1000000 + v.frac * Pow10(6 - v.e)
  IN  /\ cs[Len(cs)] # "."
      /\ hasDot => cs[Len(cs)] # "0"
      /\ IF near # {}
         THEN /\ ~hasDot
              /\ \E n \in near : cs = IntChars(n)
         ELSE /\ v.e <= 6
              /\ v.neg = (r[1] < 0)
              /\ x \in 0..1000000
              \* |x / 10^6 - r0 / q| <= 1 / (2 * 10^6)
              /\ (x = 0 \/ FracLe(2 * x - 1, 2000000, r0, r[2]))
              /\ FracLe(r0, r[2], 2 * x + 1, 2000000)

\* C8: on the success path the result is printed as its nearest integer when
\* it is within 1e-9 of it, and otherwise rounded to 6 decimals with the
\* trailing zeros and a trailing decimal point removed.
C8_Formatting ==
  /\ (Called /\ outcome.out # <<>>) => Rendered(outcome.result, outcome.out)
  /\ (cpc = "back") => Rendered(back.result, back.out)
  /\ (Called /\ outcome.out # <<>> /\ outcome.result = <<2, 1>>) => Join(outcome.out) = "2"
  /\ (Called /\ outcome.out # <<>> /\ outcome.result = <<5, 2>>) => Join(outcome.out) = "2.5"
  /\ (Called /\ outcome.out # <<>> /\ outcome.result = <<1, 3>>)
       => Join(outcome.out) = "0.333333"

\* 1 ft is a third of a yard
C8_Witness ==
  /\ Called
  /\ args.from_unit = "ft"
  /\ args.to_unit = "yd"
  /\ outcome.result = <<1, 3>>
  /\ outcome.ret = "1 ft = 0.333333 yd"

(***************************************************************************)
(* The Gradio shell (app.py 100-138): the inputs, the history list and the *)
(* click handler do_convert                                                *)
(***************************************************************************)
\* line 132: len(history) > 100
HISTORY_MAX == 100

\* line 134: history[-10:]
HISTORY_SHOWN == 10

\* the number of clicks on Convert in a run
MaxCalls == 103

\* lines 106-116: Length, m, km and 1 are the values the components start with
DefaultInputs ==
  [category |-> "Length", value |-> IntValue(1), from_unit |-> "m", to_unit |-> "km"]

\* what the four components may hold at a click: the values they start with,
\* an empty value, a temperature, a unit left over from another category,
\* twice the same unit
ShellInputs ==
  { DefaultInputs,
    [category |-> "Length", value |-> None, from_unit |-> "m", to_unit |-> "km"],
    [category |-> "Temperature", value |-> FloatValue(FALSE, 25, 1),
     from_unit |-> "degC", to_unit |-> "degF"],
    [category |-> "Length", value |-> IntValue(1), from_unit |-> "km", to_unit |-> "h"],
    [category |-> "Time", value |-> IntValue(3), from_unit |-> "h", to_unit |-> "h"] }

\* the clicks before which the user has changed the inputs; every other click
\* is made on the values the components start with
VariedCalls == {1, 2, 95, 101, 102}

InputsOfCall(i) == IF i \in VariedCalls THEN ShellInputs ELSE {DefaultInputs}

IdleConvert ==
  /\ args = NoArgs
  /\ outcome = NoOutcome
  /\ back = NoOutcome
  /\ cpc = "idle"

Init ==
  /\ history = <<>>
  /\ log = <<>>
  /\ ret = <<"", "">>
  /\ tpc = <<>>
  /\ tres = <<>>
  /\ done = 0
  /\ IdleConvert

\* lines 131-133: history.append(res), then history.pop(0) when it is too long
append_keep_all(list, res) == Append(list, res)

append_pop_last(list, res) ==
  LET appended == Append(list, res)
  IN  IF Len(appended) > HISTORY_MAX THEN SubSeq(appended, 1, Len(appended) - 1)
      ELSE appended

append_and_trim(list, res) ==
  LET appended == Append(list, res)
  IN  IF Len(appended) > HISTORY_MAX THEN Tail(appended) ELSE appended

\* list[-k:]
first_of(list, k) == SubSeq(list, 1, Min(k, Len(list)))

last_of(list, k) ==
  IF Len(list) <= k THEN list ELSE SubSeq(list, Len(list) - k + 1, Len(list))

\* sep.join(list)
RECURSIVE join(_, _)
join(sep, list) ==
  IF list = <<>> THEN ""
  ELSE IF Len(list) = 1 THEN list[1]
  ELSE list[1] \o sep \o join(sep, Tail(list))

\* lines 129-135, one click on Convert (line 138) with the inputs a
do_convert ==
  /\ Len(log) < MaxCalls
  /\ \E a \in InputsOfCall(Len(log) + 1), tie \in BOOLEAN :
       LET res == convert(a.category, a.value, a.from_unit, a.to_unit, tie)
           h   == append_and_trim(history, res)
       IN  /\ history' = h
           /\ ret' = <<res, join("\n", last_of(h, HISTORY_SHOWN))>>
           /\ log' = Append(log, res)
  /\ UNCHANGED <<args, outcome, back, cpc, tpc, tres, done>>

Next == do_convert

Spec == Init /\ [][Next]_vars

(***************************************************************************)
(* Properties of the history, checked under Spec                           *)
(***************************************************************************)
\* C1: the history holds at most 100 entries every time do_convert returns,
\* however many calls were made.
C1_HistoryBounded == Len(history) <= HISTORY_MAX

C1_Witness ==
  /\ Len(log) = 102
  /\ Len(history) = 100

\* the lines, each but the last followed by a line break
RECURSIVE Lines(_)
Lines(list) ==
  IF Len(list) = 1 THEN list[1]
  ELSE Lines(SubSeq(list, 1, Len(list) - 1)) \o "\n" \o list[Len(list)]

\* C2: the history text the n-th call returns is the last min(n, 10) strings
\* convert returned so far, oldest first, joined by line breaks, and its last
\* line is the result of that call.
C2_HistoryText ==
  Len(log) >= 1 =>
    LET n == Len(log)
        k == IF n < 10 THEN n ELSE 10
    IN  /\ ret[1] = log[n]
        /\ ret[2] = Lines(SubSeq(log, n - k + 1, n))
        /\ ret[2] = (IF k = 1 THEN "" ELSE Lines(SubSeq(log, n - k + 1, n - 1)) \o "\n")
                    \o ret[1]

\* after the truncation has started, with the inputs changed inside the
\* window shown
C2_Witness ==
  /\ Len(log) = 103
  /\ log[95] = "3 h = 3 h"
  /\ log[101] = "2.5 degC = 36.5 degF"
  /\ log[102] = "[X] Enter a number."
  /\ ret[1] = "1 m = 0.001 km"

\* C9: the history starts empty and after n calls it is the last min(n, 100)
\* strings convert returned, results and error messages alike, in call order.
C9_HistoryIsLastCalls ==
  LET n == Len(log)
      k == IF n < 100 THEN n ELSE 100
  IN  /\ Len(history) = k
      /\ \A i \in 1..k : history[i] = log[n - k + i]

C9_Witness ==
  /\ Len(log) = 101
  /\ log[1] = "[X] Enter a number."
  /\ history[1] = "[X] Error: 'h'"
  /\ history[100] = "2.5 degC = 36.5 degF"

(***************************************************************************)
(* SpecThreads: do_convert run by worker threads, interleaved at its       *)
(* statements                                                              *)
(***************************************************************************)
\* the worker threads that run do_convert
NumWorkers == 2

\* the number of calls of do_convert in a run
MaxThreadCalls == 102

Workers == 1..NumWorkers

InitThreads ==
  /\ history = <<>>
  /\ log = <<>>
  /\ ret = <<"", "">>
  /\ tpc = [t \in Workers |-> "idle"]
  /\ tres = [t \in Workers |-> ""]
  /\ done = 0
  /\ IdleConvert

InFlight == Cardinality({t \in Workers : tpc[t] # "idle"})

\* line 130: res = convert(cat, val, f, t)
t_convert(t) ==
  /\ tpc[t] = "idle"
  /\ done + InFlight < MaxThreadCalls
  /\ \E tie \in BOOLEAN :
       tres' = [tres EXCEPT ![t] = convert(DefaultInputs.category, DefaultInputs.value,
                                           DefaultInputs.from_unit,
                                           DefaultInputs.to_unit, tie)]
  /\ tpc' = [tpc EXCEPT ![t] = "append"]
  /\ UNCHANGED <<args, outcome, back, cpc, history, log, ret, done>>

\* line 131: history.append(res)
t_append(t) ==
  /\ tpc[t] = "append"
  /\ history' = Append(history, tres[t])
  /\ tpc' = [tpc EXCEPT ![t] = "test"]
  /\ UNCHANGED <<args, outcome, back, cpc, log, ret, tres, done>>

\* line 132: if len(history) > 100
t_test(t) ==
  /\ tpc[t] = "test"
  /\ tpc' = [tpc EXCEPT ![t] = IF Len(history) > HISTORY_MAX THEN "pop" ELSE "slice"]
  /\ UNCHANGED <<args, outcome, back, cpc, history, log, ret, tres, done>>

\* line 133: history.pop(0)
t_pop(t) ==
  /\ tpc[t] = "pop"
  /\ history # <<>>
  /\ history' = Tail(history)
  /\ tpc' = [tpc EXCEPT ![t] = "slice"]
  /\ UNCHANGED <<args, outcome, back, cpc, log, ret, tres, done>>

\* lines 134-135: hist_txt = "\n".join(history[-10:]); return res, hist_txt
t_return(t) ==
  /\ tpc[t] = "slice"
  /\ ret' = <<tres[t], join("\n", last_of(history, HISTORY_SHOWN))>>
  /\ done' = done + 1
  /\ tpc' = [tpc EXCEPT ![t] = "idle"]
  /\ UNCHANGED <<args, outcome, back, cpc, history, log, tres>>

NextThreads ==
  \E t \in Workers :
    t_convert(t) \/ t_append(t) \/ t_test(t) \/ t_pop(t) \/ t_return(t)

SpecThreads == InitThreads /\ [][NextThreads]_vars

\* C10: when do_convert calls interleave at their steps, then once every call
\* has returned and n calls were made the history holds exactly min(n, 100)
\* entries.
C10_InterleavedLength ==
  (\A t \in Workers : tpc[t] = "idle") => Len(history) = Min(done, HISTORY_MAX)

====
